---- MODULE Spec2Model ----
(***************************************************************************)
(* Model of the SVG benchmark front-end (src/app.py): the four model       *)
(* adapters, the SVG extractor, the per-model wrapper test_model, the      *)
(* renderer display_svg and the Streamlit script main / run_benchmark /    *)
(* display_results with its session state.                                 *)
(*                                                                         *)
(* A Python str is a sequence of one-character strings; Python None is the *)
(* one-element sequence None, which no str equals because "None" is not a  *)
(* single character.  A message (an error text) is kept whole, as a       *)
(* one-element sequence holding the message.                               *)
(*                                                                         *)
(* A run of run_benchmark is one step per loop iteration, because each     *)
(* iteration blocks on a provider; the script takes no user input while    *)
(* the loop runs.                                                          *)
(***************************************************************************)
EXTENDS Integers, Sequences, FiniteSets, TLC

VARIABLES
  selected,   \* the ids of the models whose sidebar checkbox is checked
  session,    \* st.session_state: whether benchmark_results is there, and its value
  pc,         \* "idle": the script waits for the user; "running": inside the loop of run_benchmark
  run_models, \* run_benchmark: its argument selected_models
  i,          \* run_benchmark: the number of loop iterations done
  results,    \* run_benchmark: its local list results
  calls,      \* the adapters invoked since the run started, in order
  outcomes,   \* what each adapter invoked since the run started did: "raise" | "nosvg" | "svg"
  writes,     \* the number of assignments to benchmark_results since the run started
  rendered,   \* what display_results read in the latest script run, if it was called
  warning,    \* the latest script run stopped at the "select at least one model" warning
  event,      \* the latest step: "start" | "toggle" | "run" | "response" | "finish" | "abort" | "clear"
  amodel,     \* adapter harness: the model whose adapter is invoked
  aenv,       \* adapter harness: what the provider does
  aret,       \* adapter harness: what the adapter did
  ares,       \* adapter harness: the BenchmarkResult test_model made of it
  apc,        \* adapter harness: "off" | "ready" | "called" | "wrapped"
  text,       \* extractor harness: the response text handed to extract_svg_content
  svg,        \* extractor harness: what extract_svg_content returned
  shown,      \* extractor harness: what display_svg did with svg
  xpc         \* extractor harness: "off" | "input" | "extracted" | "displayed"

mainVars == <<selected, session, pc, run_models, i, results, calls, outcomes, writes, rendered, warning, event>>
adapterVars == <<amodel, aenv, aret, ares, apc>>
extractVars == <<text, svg, shown, xpc>>
vars == <<mainVars, adapterVars, extractVars>>

None == <<"None">>

\* ------------------------------------------------------------------------
\* Bounds
\* ------------------------------------------------------------------------
\* the longest response text of the extractor harness, in fragments
MaxFrags == 4

\* ------------------------------------------------------------------------
\* Strings
\* ------------------------------------------------------------------------
OpenLit == <<"<", "s", "v", "g">>
CloseLit == <<"<", "/", "s", "v", "g", ">">>
ViewBoxLit == <<"v", "i", "e", "w", "B", "o", "x">>
WidthLit == <<"w", "i", "d", "t", "h">>

\* '<svg viewBox="0 0 400 300" width="400" height="300"', the replacement
\* string of display_svg
InjectedLit ==
  OpenLit \o <<" ">> \o ViewBoxLit
  \o <<"=", "\"", "0", " ", "0", " ", "4", "0", "0", " ", "3", "0", "0", "\"">>
  \o <<" ">> \o WidthLit \o <<"=", "\"", "4", "0", "0", "\"">>
  \o <<" ", "h", "e", "i", "g", "h", "t", "=", "\"", "3", "0", "0", "\"">>

\* the pieces response texts are built from
Frags ==
  { OpenLit,
    <<"<", "S", "V", "G">>,
    <<">">>,
    CloseLit,
    <<"<", "/", "S", "v", "g", ">">>,
    <<"\n">>,
    <<"x">>,
    <<" ">> \o WidthLit,
    <<" ">> \o ViewBoxLit }

RECURSIVE Concat(_)
Concat(fs) == IF fs = <<>> THEN <<>> ELSE Head(fs) \o Concat(Tail(fs))

Texts == { Concat(fs) : fs \in UNION { [1..n -> Frags] : n \in 0..MaxFrags } }

\* s[pos..] starts with lit, compared exactly (str.replace, the `in` operator)
StartsWith(s, pos, lit) ==
  /\ pos >= 1
  /\ pos + Len(lit) - 1 <= Len(s)
  /\ \A k \in 1..Len(lit) : s[pos + k - 1] = lit[k]

\* Python's `lit in s`
Contains(s, lit) == \E p \in 1..Len(s) : StartsWith(s, p, lit)

\* Python's s.replace(old, new): every non-overlapping occurrence, left to
\* right, compared exactly
RECURSIVE str_replace_from(_, _, _, _)
str_replace_from(s, pos, old, new) ==
  IF pos > Len(s) THEN <<>>
  ELSE IF StartsWith(s, pos, old)
       THEN new \o str_replace_from(s, pos + Len(old), old, new)
       ELSE <<s[pos]>> \o str_replace_from(s, pos + 1, old, new)

str_replace(s, old, new) == str_replace_from(s, 1, old, new)

\* ------------------------------------------------------------------------
\* re.search(r'<svg[^>]*>.*?</svg>', text, re.DOTALL | re.IGNORECASE)
\* ------------------------------------------------------------------------
\* the case folding re.IGNORECASE applies to the letters of the alphabet
Fold(c) ==
  CASE c = "S" -> "s"
    [] c = "V" -> "v"
    [] c = "G" -> "g"
    [] c = "B" -> "b"
    [] OTHER -> c

CharEqExact(a, b) == a = b

\* a pattern letter against a text character under re.IGNORECASE
CharEq(a, b) == Fold(a) = Fold(b)

DotNoNewline(c) == c # "\n"

\* what `.` matches under re.DOTALL: every character, the newline included
Dot(c) == TRUE

\* the literal lit matches at pos
MatchLit(s, pos, lit) ==
  /\ pos + Len(lit) - 1 <= Len(s)
  /\ \A k \in 1..Len(lit) : CharEq(lit[k], s[pos + k - 1])

\* `.*?</svg>` from pos: the shortest extension first; the index of the last
\* character matched, 0 when there is no match
RECURSIVE LazyClose(_, _)
LazyClose(s, pos) ==
  IF MatchLit(s, pos, CloseLit) THEN pos + Len(CloseLit) - 1
  ELSE IF pos <= Len(s) /\ Dot(s[pos]) THEN LazyClose(s, pos + 1)
  ELSE 0

\* the length of the longest run of [^>] from pos
RECURSIVE ClassRun(_, _)
ClassRun(s, pos) ==
  IF pos <= Len(s) /\ s[pos] # ">" THEN 1 + ClassRun(s, pos + 1) ELSE 0

\* `[^>]*>.*?</svg>` from pos with [^>]* taking k characters, backtracking
\* to k-1 on failure (greedy)
RECURSIVE GreedyTag(_, _, _)
GreedyTag(s, pos, k) ==
  IF k < 0 THEN 0
  ELSE LET q == pos + k
           e == IF q <= Len(s) /\ s[q] = ">" THEN LazyClose(s, q + 1) ELSE 0
       IN IF e # 0 THEN e ELSE GreedyTag(s, pos, k - 1)

\* the whole pattern anchored at start
MatchAt(s, start) ==
  IF MatchLit(s, start, OpenLit)
  THEN GreedyTag(s, start + Len(OpenLit), ClassRun(s, start + Len(OpenLit)))
  ELSE 0

\* re.search: the leftmost start position with a match
RECURSIVE re_search(_, _)
re_search(s, start) ==
  IF start > Len(s) THEN [found |-> FALSE, start |-> 0, end |-> 0]
  ELSE LET e == MatchAt(s, start)
       IN IF e # 0 THEN [found |-> TRUE, start |-> start, end |-> e]
          ELSE re_search(s, start + 1)

\* ------------------------------------------------------------------------
\* extract_svg_content, display_svg
\* ------------------------------------------------------------------------
Falsy(t) == t = None \/ t = <<>>

extract_svg_content(t) ==
  IF Falsy(t) THEN None
  ELSE LET match == re_search(t, 1)
       IN IF match.found THEN SubSeq(t, match.start, match.end) ELSE None

\* display_svg up to the base64 step: error says the error indicator was
\* shown, payload is the string handed to base64.b64encode
display_svg(svg_content) ==
  IF ~Falsy(svg_content)
  THEN [error |-> FALSE,
        payload |-> IF ~Contains(svg_content, ViewBoxLit) /\ ~Contains(svg_content, WidthLit)
                    THEN str_replace(svg_content, OpenLit, InjectedLit)
                    ELSE svg_content]
  ELSE [error |-> TRUE, payload |-> None]

\* ------------------------------------------------------------------------
\* Models, providers
\* ------------------------------------------------------------------------
MODELS ==
  << [id |-> "gemini-2.5-pro", name |-> "Gemini 2.5 Pro", type |-> "vertex"],
     [id |-> "claude-3-5-sonnet-20241022", name |-> "Claude 3.5 Sonnet", type |-> "anthropic"],
     [id |-> "gpt-4", name |-> "Azure GPT-4", type |-> "azure"],
     [id |-> "deepseek-chat", name |-> "DeepSeek R1-0528", type |-> "deepseek"] >>

ModelIds == { MODELS[k].id : k \in 1..Len(MODELS) }

\* response texts of the providers: prose only, and prose around an SVG with
\* an upper-case tag and a line break
NoSvgText == <<"x", " ">> \o WidthLit
SvgText == <<"x", "<", "S", "V", "G", ">", "\n", "<", "/", "s", "v", "g", ">", "x">>
Contents == { None, <<>>, NoSvgText, SvgText }

\* HTTP statuses a provider answers with: success, not found, a 5xx
Statuses == { 200, 404, 500 }

\* response bodies: not JSON, JSON of another shape (an error object), JSON
\* of the provider's completion shape carrying a text (or null)
ErrorBodies ==
  { [kind |-> "notjson", content |-> None], [kind |-> "other", content |-> None] }
Bodies ==
  ErrorBodies \cup { [kind |-> "completion", content |-> c] : c \in Contents }

\* what happens when an adapter runs: the secret it reads is missing or
\* invalid, or the request fails on the way (connection, timeout), or the
\* provider answers with a status and a body; a provider sends a completion
\* only with a 2xx status
Answered ==
  { a \in [fault : {"none"}, status : Statuses, body : Bodies] :
      a.status = 200 \/ a.body \in ErrorBodies }
NoAnswer == [kind |-> "notjson", content |-> None]
Envs ==
  { [fault |-> "credential", status |-> 0, body |-> NoAnswer],
    [fault |-> "transport", status |-> 0, body |-> NoAnswer] }
  \cup Answered

\* what a call does: it raises an exception of class exc (requests'
\* ConnectionError, HTTPError and JSONDecodeError are all RequestException),
\* or it returns value; value.choices says
\* value["choices"][0]["message"]["content"] exists, value.content is it
Raise(exc) == [raised |-> TRUE, exc |-> <<exc>>, value |-> [choices |-> FALSE, content |-> None]]
Return(v) == [raised |-> FALSE, exc |-> None, value |-> v]
Completion(c) == [choices |-> TRUE, content |-> c]

\* response.json() of a body that is JSON
Json(body) ==
  IF body.kind = "completion" THEN Completion(body.content)
  ELSE [choices |-> FALSE, content |-> None]

\* requests' Response.raise_for_status raises HTTPError for 4xx and 5xx
RaisesForStatus(status) == 400 <= status /\ status < 600

call_gemini(e) ==
  IF e.fault = "credential" THEN Raise("KeyError")
  ELSE IF e.fault = "transport" THEN Raise("GoogleAPICallError")
  ELSE IF ~(200 <= e.status /\ e.status < 300) THEN Raise("GoogleAPICallError")
  ELSE IF e.body.kind # "completion" \/ e.body.content = None THEN Raise("ValueError")
  ELSE Return(Completion(e.body.content))

call_claude(e) ==
  IF e.fault = "credential" THEN Raise("KeyError")
  ELSE IF e.fault = "transport" THEN Raise("RequestException")
  ELSE IF e.body.kind = "notjson" THEN Raise("RequestException")
  ELSE IF e.body.kind # "completion" THEN Raise("KeyError")
  ELSE Return(Completion(e.body.content))

call_azure_gpt4(e) ==
  IF e.fault = "credential" THEN Raise("KeyError")
  ELSE IF e.fault = "transport" THEN Raise("RequestException")
  ELSE IF RaisesForStatus(e.status) THEN Raise("RequestException")
  ELSE IF e.body.kind = "notjson" THEN Raise("RequestException")
  ELSE Return(Json(e.body))

\* the try block of call_deepseek
call_deepseek_try(e) ==
  IF e.fault = "credential" THEN Raise("KeyError")
  ELSE IF e.fault = "transport" THEN Raise("RequestException")
  ELSE IF e.status = 404 THEN Return(Completion(<<>>))
  ELSE IF RaisesForStatus(e.status) THEN Raise("RequestException")
  ELSE IF e.body.kind = "notjson" THEN Raise("RequestException")
  ELSE Return(Json(e.body))

\* call_deepseek: whatever its try block raises becomes an empty completion
call_deepseek(e) ==
  LET r == call_deepseek_try(e)
  IN IF r.raised THEN Return(Completion(<<>>)) ELSE r

\* the if/elif chain of test_model: the adapter it invokes and what the
\* adapter does
Dispatch(model_info, e) ==
  CASE model_info.type = "vertex" -> [called |-> "call_gemini", ret |-> call_gemini(e)]
    [] model_info.type = "anthropic" -> [called |-> "call_claude", ret |-> call_claude(e)]
    [] model_info.type = "azure" -> [called |-> "call_azure_gpt4", ret |-> call_azure_gpt4(e)]
    [] model_info.type = "deepseek" -> [called |-> "call_deepseek", ret |-> call_deepseek(e)]

\* ------------------------------------------------------------------------
\* test_model
\* ------------------------------------------------------------------------
NoSvgMessage == <<"No valid SVG generated">>

\* str(e) of the except branch: a str, never None; the program reads no
\* message, so the texts of the exceptions are not told apart
str_e(exc) == <<"str(e)">>

except_result_no_error(model_info, msg) ==
  [model_name |-> model_info.name, success |-> FALSE, error |-> None, svg_content |-> None]

\* the result built by the except branch; msg is str(e)
except_result(model_info, msg) ==
  [model_name |-> model_info.name, success |-> FALSE, error |-> msg, svg_content |-> None]

\* the result built at the end of the try block
try_result(model_info, content) ==
  LET svg_content == extract_svg_content(content)
  IN [model_name |-> model_info.name,
      success |-> ~Falsy(svg_content),
      error |-> IF ~Falsy(svg_content) THEN None ELSE NoSvgMessage,
      svg_content |-> svg_content]

\* test_model without its except branch: what the adapter raises goes up
test_model_no_except(model_info, e) ==
  LET d == Dispatch(model_info, e)
  IN IF d.ret.raised \/ ~d.ret.value.choices
     THEN [raised |-> TRUE, called |-> <<d.called>>, result |-> except_result(model_info, str_e(<<"KeyError">>))]
     ELSE [raised |-> FALSE, called |-> <<d.called>>, result |-> try_result(model_info, d.ret.value.content)]

\* test_model: raised says an exception left test_model, called lists the
\* adapters it invoked, result is the BenchmarkResult it returned
test_model(model_info, e) ==
  LET d == Dispatch(model_info, e)
  IN [raised |-> FALSE,
      called |-> <<d.called>>,
      result |-> IF d.ret.raised THEN except_result(model_info, str_e(d.ret.exc))
                 ELSE IF ~d.ret.value.choices THEN except_result(model_info, str_e(<<"KeyError">>))
                 ELSE try_result(model_info, d.ret.value.content)]

\* ------------------------------------------------------------------------
\* The reference extractor of the specification (4.2): the leftmost opening
\* `<svg` tag through the first `</svg>` after it, tag names in any case
\* ------------------------------------------------------------------------
ToLower(c) ==
  CASE c = "S" -> "s"
    [] c = "V" -> "v"
    [] c = "G" -> "g"
    [] c = "B" -> "b"
    [] OTHER -> c

LowerAt(s, pos, lit) ==
  /\ pos + Len(lit) - 1 <= Len(s)
  /\ \A k \in 1..Len(lit) : ToLower(s[pos + k - 1]) = lit[k]

MinOf(S) == CHOOSE m \in S : \A n \in S : m <= n

RefExtract(t) ==
  IF t = None THEN None
  ELSE LET opens == { p \in 1..Len(t) : LowerAt(t, p, OpenLit) }
       IN IF opens = {} THEN None
          ELSE LET p == MinOf(opens)
                   gts == { q \in (p + 4)..Len(t) : t[q] = ">" }
               IN IF gts = {} THEN None
                  ELSE LET q == MinOf(gts)
                           closes == { r \in (q + 1)..Len(t) : LowerAt(t, r, CloseLit) }
                       IN IF closes = {} THEN None
                          ELSE SubSeq(t, p, MinOf(closes) + 5)

\* ------------------------------------------------------------------------
\* The script: main, run_benchmark, display_results
\* ------------------------------------------------------------------------
Absent == [present |-> FALSE, results |-> <<>>]
Stored(rs) == [present |-> TRUE, results |-> rs]

\* main: the models whose checkbox is checked, in the order of MODELS
selected_models(sel) == SelectSeq(MODELS, LAMBDA m : m.id \in sel)

EmptySelectionIgnored(sm) == FALSE

\* main: `if not selected_models`
EmptySelection(sm) == sm = <<>>

NextModelReversed(models, k) == models[Len(models) + 1 - k]

\* run_benchmark: the model of the k-th iteration of `for i, model in
\* enumerate(selected_models)`
NextModel(models, k) == models[k]

InitialResultsKept(s) == s.results

\* run_benchmark: `results = []`; s is the session state at that moment
InitialResults(s) == <<>>

WritesSessionEveryIteration(k, n) == TRUE

\* run_benchmark: the assignment to st.session_state.benchmark_results comes
\* after the loop, when k of the n models have been processed and k = n
WritesSession(k, n) == k = n

DeletedKept(s) == s

\* display_results: `del st.session_state['benchmark_results']`
Deleted(s) == Absent

\* what the adapter did, as test_model sees it: it raised, it returned a
\* response without an SVG in it, it returned a response with one (by the
\* reference extractor)
OutcomeOf(ret) ==
  IF ret.raised THEN "raise"
  ELSE IF ret.value.choices /\ RefExtract(ret.value.content) # None
       THEN "svg"
       ELSE "nosvg"

HarnessOff ==
  /\ amodel = 1
  /\ aenv = [fault |-> "credential", status |-> 0, body |-> NoAnswer]
  /\ aret = Return(Completion(None))
  /\ ares = except_result(MODELS[1], None)
  /\ apc = "off"
  /\ text = None
  /\ svg = None
  /\ shown = [error |-> FALSE, payload |-> None]
  /\ xpc = "off"

\* the first script run of a session: every checkbox is checked, nothing is
\* stored, the run button was not clicked
MainInit ==
  /\ selected = ModelIds
  /\ session = Absent
  /\ pc = "idle"
  /\ run_models = <<>>
  /\ i = 0
  /\ results = <<>>
  /\ calls = <<>>
  /\ outcomes = <<>>
  /\ writes = 0
  /\ rendered = Absent
  /\ warning = FALSE
  /\ event = "start"

Init == MainInit /\ HarnessOff

\* the end of main when the run button was not clicked: display_results
\* runs iff benchmark_results is in the session state
ShowStored(s) == IF s.present THEN s ELSE Absent

\* the user toggles the checkbox of model id; the script reruns with the run
\* button not clicked
Toggle(id) ==
  /\ pc = "idle"
  /\ selected' = IF id \in selected THEN selected \ {id} ELSE selected \cup {id}
  /\ IF EmptySelection(selected_models(selected'))
     THEN warning' = TRUE /\ rendered' = Absent
     ELSE warning' = FALSE /\ rendered' = ShowStored(session)
  /\ event' = "toggle"
  /\ UNCHANGED <<session, pc, run_models, i, results, calls, outcomes, writes>>

\* the user clicks "Run Benchmark"; the script reruns, and with a selection
\* it enters run_benchmark, whose loop then waits for the first adapter
RunClick ==
  /\ pc = "idle"
  /\ event' = "run"
  /\ UNCHANGED selected
  /\ LET sm == selected_models(selected)
     IN IF EmptySelection(sm)
        THEN /\ warning' = TRUE
             /\ rendered' = Absent
             /\ UNCHANGED <<session, pc, run_models, i, results, calls, outcomes, writes>>
        ELSE /\ warning' = FALSE
             /\ run_models' = sm
             /\ i' = 0
             /\ results' = InitialResults(session)
             /\ calls' = <<>>
             /\ outcomes' = <<>>
             /\ IF WritesSession(0, Len(sm))
                THEN /\ session' = Stored(results')
                     /\ writes' = 1
                ELSE /\ session' = session
                     /\ writes' = 0
             /\ IF Len(sm) = 0
                THEN pc' = "idle" /\ rendered' = ShowStored(session')
                ELSE pc' = "running" /\ rendered' = Absent

\* one iteration of the loop of run_benchmark: the adapter of the next model
\* answers as e says, test_model wraps it, the result is appended; after the
\* last model the results are stored and main goes on to display_results
Response ==
  /\ pc = "running"
  /\ \E e \in Envs :
       LET model == NextModel(run_models, i + 1)
           tm == test_model(model, e)
       IN IF tm.raised
          THEN /\ pc' = "idle"
               /\ event' = "abort"
               /\ rendered' = Absent
               /\ calls' = calls \o tm.called
               /\ UNCHANGED <<session, i, results, outcomes, writes>>
          ELSE /\ results' = Append(results, tm.result)
               /\ calls' = calls \o tm.called
               /\ outcomes' = Append(outcomes, OutcomeOf(Dispatch(model, e).ret))
               /\ i' = i + 1
               /\ IF WritesSession(i', Len(run_models))
                  THEN /\ session' = Stored(results')
                       /\ writes' = writes + 1
                  ELSE UNCHANGED <<session, writes>>
               /\ IF i' = Len(run_models)
                  THEN /\ pc' = "idle"
                       /\ event' = "finish"
                       /\ rendered' = ShowStored(session')
                  ELSE /\ pc' = "running"
                       /\ event' = "response"
                       /\ rendered' = Absent
  /\ UNCHANGED <<selected, run_models, warning>>

\* the user clicks "Clear Results & Run New Test", which display_results
\* drew in the latest script run; the script reruns, display_results deletes
\* benchmark_results and calls st.rerun(), and the script runs once more
Clear ==
  /\ pc = "idle"
  /\ rendered.present
  /\ event' = "clear"
  /\ IF EmptySelection(selected_models(selected))
     THEN /\ warning' = TRUE
          /\ rendered' = Absent
          /\ UNCHANGED session
     ELSE /\ warning' = FALSE
          /\ session' = (IF session.present THEN Deleted(session) ELSE session)
          /\ rendered' = ShowStored(session')
  /\ UNCHANGED <<selected, pc, run_models, i, results, calls, outcomes, writes>>

Next ==
  \/ (\E id \in ModelIds : Toggle(id)) /\ UNCHANGED <<adapterVars, extractVars>>
  \/ RunClick /\ UNCHANGED <<adapterVars, extractVars>>
  \/ Response /\ UNCHANGED <<adapterVars, extractVars>>
  \/ Clear /\ UNCHANGED <<adapterVars, extractVars>>

Spec == Init /\ [][Next]_vars

\* ------------------------------------------------------------------------
\* Adapter harness: one adapter is invoked through the dispatch of
\* test_model under every provider behaviour, and test_model wraps it
\* ------------------------------------------------------------------------
AdapterInit ==
  /\ MainInit
  /\ amodel \in 1..Len(MODELS)
  /\ aenv \in Envs
  /\ aret = Return(Completion(None))
  /\ ares = except_result(MODELS[1], None)
  /\ apc = "ready"
  /\ text = None
  /\ svg = None
  /\ shown = [error |-> FALSE, payload |-> None]
  /\ xpc = "off"

CallAdapter ==
  /\ apc = "ready"
  /\ aret' = Dispatch(MODELS[amodel], aenv).ret
  /\ apc' = "called"
  /\ UNCHANGED <<amodel, aenv, ares, mainVars, extractVars>>

WrapResult ==
  /\ apc = "called"
  /\ ares' = test_model(MODELS[amodel], aenv).result
  /\ apc' = "wrapped"
  /\ UNCHANGED <<amodel, aenv, aret, mainVars, extractVars>>

AdapterNext == CallAdapter \/ WrapResult

AdapterSpec == AdapterInit /\ [][AdapterNext]_vars

\* ------------------------------------------------------------------------
\* Extractor harness: a response text is extracted, the extracted SVG is
\* rendered
\* ------------------------------------------------------------------------
ExtractInit ==
  /\ MainInit
  /\ amodel = 1
  /\ aenv = [fault |-> "credential", status |-> 0, body |-> NoAnswer]
  /\ aret = Return(Completion(None))
  /\ ares = except_result(MODELS[1], None)
  /\ apc = "off"
  /\ text \in Texts \cup {None}
  /\ svg = None
  /\ shown = [error |-> FALSE, payload |-> None]
  /\ xpc = "input"

Extract ==
  /\ xpc = "input"
  /\ svg' = extract_svg_content(text)
  /\ xpc' = "extracted"
  /\ UNCHANGED <<text, shown, mainVars, adapterVars>>

Display ==
  /\ xpc = "extracted"
  /\ shown' = display_svg(svg)
  /\ xpc' = "displayed"
  /\ UNCHANGED <<text, svg, mainVars, adapterVars>>

ExtractNext == Extract \/ Display

ExtractSpec == ExtractInit /\ [][ExtractNext]_vars

\* ------------------------------------------------------------------------
\* Properties of the run (Spec)
\* ------------------------------------------------------------------------
Range(seq) == { seq[k] : k \in 1..Len(seq) }

\* the adapter the specification assigns to each provider type
AdapterName(type) ==
  CASE type = "vertex" -> "call_gemini"
    [] type = "anthropic" -> "call_claude"
    [] type = "azure" -> "call_azure_gpt4"
    [] type = "deepseek" -> "call_deepseek"

\* C1: a run attempts every selected model and records exactly one result
\* per selected model whatever each adapter does (raise, text without SVG,
\* text with SVG): no exception ends the run, the loop never stops before
\* the last model, and the k-th result is the k-th model's and reflects the
\* k-th adapter's outcome only.
C1_FailureIsolation ==
  /\ event # "abort"
  /\ Len(results) = i /\ Len(outcomes) = i /\ Len(calls) = i
  /\ pc = "running" => i < Len(run_models)
  /\ event = "finish" => i = Len(run_models) /\ session = Stored(results)
  /\ \A k \in 1..Len(results) :
       /\ results[k].model_name = run_models[k].name
       /\ results[k].success <=> outcomes[k] = "svg"
       /\ outcomes[k] = "raise" => results[k].error \notin {None, NoSvgMessage}
       /\ outcomes[k] = "nosvg" => results[k].error # None

\* C1 witness: a finished run of at least three models whose second adapter
\* raised, whose first returned an SVG and whose third returned none
C1_Witness ==
  /\ event = "finish"
  /\ Len(run_models) >= 3
  /\ outcomes[1] = "svg" /\ outcomes[2] = "raise" /\ outcomes[3] = "nosvg"
  /\ session.results[1].success /\ ~session.results[2].success /\ ~session.results[3].success

\* C2: every BenchmarkResult of test_model, from its normal path or its
\* except branch, has success true iff svg_content is not None, and error
\* not None iff success is false.
C2_ResultInvariant ==
  \A r \in Range(results) \cup Range(session.results) :
    /\ r.success <=> r.svg_content # None
    /\ r.error # None <=> ~r.success

\* C2 witness: the results of a run hold one from the except branch, one
\* from the normal path without an SVG and one from the normal path with one
C2_Witness ==
  /\ \E k \in 1..Len(results) : outcomes[k] = "raise" /\ results[k].error = str_e(<<"KeyError">>)
  /\ \E r \in Range(results) : r.error = NoSvgMessage
  /\ \E r \in Range(results) : r.success /\ r.svg_content # None

\* C4: adapters are invoked one per loop iteration, in the order of the
\* list of selected models (the checked models in the order of MODELS),
\* each selected model's adapter once; the k-th result carries the name of
\* the k-th selected model.
C4_SequentialInOrder ==
  /\ Len(calls) = i /\ Len(results) = i /\ i <= Len(run_models)
  /\ pc = "running" =>
       /\ run_models = selected_models(selected)
       /\ { run_models[k].id : k \in 1..Len(run_models) } = selected
  /\ \A k \in 1..Len(run_models) : \A j \in 1..Len(run_models) :
       k < j => \E a \in 1..Len(MODELS) : \E b \in 1..Len(MODELS) :
                  a < b /\ MODELS[a] = run_models[k] /\ MODELS[b] = run_models[j]
  /\ \A k \in 1..i :
       /\ calls[k] = AdapterName(run_models[k].type)
       /\ results[k].model_name = run_models[k].name
  /\ event = "finish" =>
       /\ i = Len(run_models)
       /\ Len(session.results) = Len(run_models)
       /\ \A k \in 1..Len(run_models) : session.results[k].model_name = run_models[k].name

\* C4 witness: a finished run of all four models in which an early model
\* failed
C4_Witness ==
  /\ event = "finish"
  /\ Len(run_models) = 4
  /\ calls = <<"call_gemini", "call_claude", "call_azure_gpt4", "call_deepseek">>
  /\ ~results[1].success

C7_State ==
  /\ writes <= 1
  /\ pc = "running" => writes = 0 /\ ~rendered.present
  /\ event = "finish" => writes = 1 /\ session.present
  /\ rendered.present => rendered = session

C7_Step ==
  /\ writes' # writes /\ writes' # 0 =>
       /\ pc = "running" /\ pc' = "idle"
       /\ i' = Len(run_models)
       /\ session' = Stored(results')
  /\ session' # session /\ session'.present =>
       /\ writes' = writes + 1
       /\ Len(session'.results) = Len(run_models)
       /\ \A k \in 1..Len(run_models) : session'.results[k].model_name = run_models[k].name

\* C7: benchmark_results is written once per run, by the step that
\* processes the last selected model, with one result per model of that
\* run; while a run iterates nothing has been written by it and
\* display_results has read nothing.
C7_StoredNeverPartial == []C7_State /\ [][C7_Step]_vars

\* C7 witness: a run of several models has finished, wrote once, and its
\* results are shown
C7_Witness ==
  /\ event = "finish"
  /\ writes = 1
  /\ Len(run_models) >= 2
  /\ rendered.present
  /\ Len(rendered.results) = Len(run_models)

\* C8: a run request with no model selected is rejected with the warning:
\* no run starts, no adapter is invoked and the stored results, present or
\* absent, stay as they are.
C8_EmptySelectionRejected ==
  [][ (event' = "run" /\ pc = "idle" /\ selected = {}) =>
        /\ warning'
        /\ pc' = "idle"
        /\ session' = session
        /\ calls' = calls
        /\ writes' = writes
        /\ i' = i /\ results' = results ]_vars

\* C8 witness: a run request was rejected while results were stored
C8_Witness ==
  /\ event = "run"
  /\ selected = {}
  /\ warning
  /\ pc = "idle"
  /\ session.present

\* C9: the clear action taken with results stored removes them and leaves
\* the coordinator idle without invoking an adapter; with nothing stored
\* nothing is displayed, and results are displayed again only by the step
\* that finishes a run.
C9_ClearDiscards ==
  /\ [](~session.present => ~rendered.present)
  /\ [][ (event' = "clear" /\ session.present) =>
           /\ ~session'.present
           /\ ~rendered'.present
           /\ pc' = "idle"
           /\ calls' = calls /\ i' = i /\ results' = results ]_vars
  /\ [][ (~session.present /\ rendered'.present) => event' = "finish" ]_vars

\* C9 witness: the results of a finished run have been cleared
C9_Witness ==
  /\ event = "clear"
  /\ ~session.present
  /\ ~rendered.present
  /\ pc = "idle"
  /\ Len(results) >= 1

\* C10: a run requested while results are stored starts; the stored results
\* stay as they are while the new run iterates; the step that processes the
\* last model replaces them by exactly the new run's results, one per model
\* of the new run.
C10_RerunReplaces ==
  /\ [][ (event' = "run" /\ pc = "idle" /\ session.present /\ selected # {}) =>
           /\ pc' = "running"
           /\ results' = <<>>
           /\ session' = session ]_vars
  /\ [][ pc' = "running" => session' = session ]_vars
  /\ [][ (pc = "running" /\ pc' = "idle") =>
           /\ session'.present
           /\ Len(session'.results) = Len(run_models)
           /\ \A k \in 1..Len(run_models) :
                /\ session'.results[k] = results'[k]
                /\ session'.results[k].model_name = run_models[k].name
                /\ session'.results[k].success <=> outcomes'[k] = "svg" ]_vars

\* C10 witness: a new run iterates while the results of an earlier, longer
\* run with another first result are still stored
C10_Witness ==
  /\ pc = "running"
  /\ session.present
  /\ i >= 1
  /\ Len(session.results) > Len(run_models)
  /\ results[1] # session.results[1]

\* ------------------------------------------------------------------------
\* Properties of the adapters (AdapterSpec)
\* ------------------------------------------------------------------------
AType == MODELS[amodel].type
Non2xx(status) == ~(200 <= status /\ status < 300)

\* a transport error, a non-2xx status or a missing credential
Failure(e) == e.fault # "none" \/ Non2xx(e.status)

\* C3: whichever of the four adapters is invoked, a transport error, a
\* non-2xx status or a missing credential makes it raise to test_model; it
\* does not return a response.
C3_EveryAdapterRaises ==
  (apc # "ready" /\ Failure(aenv)) => aret.raised

\* ------------------------------------------------------------------------
\* Properties of the extractor and the renderer (ExtractSpec)
\* ------------------------------------------------------------------------
\* the text has an `<svg` and, somewhere after it, a `</svg>`
HasPair(t) ==
  /\ t # None
  /\ \E p \in 1..Len(t) : \E r \in 1..Len(t) :
       p + 4 <= r /\ LowerAt(t, p, OpenLit) /\ LowerAt(t, r, CloseLit)

\* C5: extract_svg_content returns what the reference extractor returns on
\* every input: absent for an absent text and for a text without an
\* `<svg`/`</svg>` pair, otherwise the span from the leftmost opening tag
\* through the first closing tag after it, unchanged.
C5_ExtractAgreesWithReference ==
  xpc # "input" =>
    /\ svg = RefExtract(text)
    /\ (text = None => svg = None)
    /\ (~HasPair(text) => svg = None)

\* C5 witness: a span with an upper-case opening tag and a line break
\* between its tags has been extracted
C5_Witness ==
  /\ xpc = "extracted"
  /\ svg # None
  /\ Contains(svg, <<">", "\n", "<", "/">>)
  /\ Contains(svg, <<"S", "V", "G">>)

\* the opening tag of s with the default attributes put after `<svg`
InjectOpening(s) == SubSeq(s, 1, 4) \o SubSeq(InjectedLit, 5, Len(InjectedLit)) \o SubSeq(s, 5, Len(s))

\* C6: for every SVG string extraction returns, display_svg encodes the
\* string with the default attributes injected into its opening tag iff it
\* contains neither `viewBox` nor `width`, and the unchanged string
\* otherwise.
C6_InjectIffNoViewBoxNoWidth ==
  (xpc = "displayed" /\ svg # None) =>
    /\ ~shown.error
    /\ shown.payload = IF ~Contains(svg, ViewBoxLit) /\ ~Contains(svg, WidthLit)
                       THEN InjectOpening(svg)
                       ELSE svg

====
